---- MODULE Spec2Model ----
(***************************************************************************)
(* A model of ueberzugpp's compositor-interaction code:                    *)
(*   - SwayShm, the shared-memory double-buffer surface (shm.cpp), and     *)
(*   - SwaySocket, the sway IPC client and its focused-window search       *)
(*     (sway.cpp).                                                         *)
(* The two objects do not share state; each has its own specification      *)
(* (SpecShm, SpecTree) over the module's variables.                        *)
(***************************************************************************)
EXTENDS Integers, Sequences, FiniteSets, TLC

(***************************************************************************)
(* Bounds of the model.                                                    *)
(***************************************************************************)
\* small surface dimensions are 1..MaxDim
MaxDim == 2
\* one large dimension: BigDim * BigDim * 8 does not fit a 32-bit int
BigDim == 16384
\* get_data is called with offsets 0..MaxOffset
MaxOffset == 3
\* allocate_pool_buffers is called at most MaxBinds times on one surface
MaxBinds == 2
\* compositor trees have 1..MaxNodes nodes
MaxNodes == 4

(***************************************************************************)
(* 32-bit int arithmetic.  width, height and the products computed from    *)
(* them are C++ ints; a product that does not fit wraps modulo 2^32, which *)
(* is what the multiply instruction leaves in the register.                *)
(***************************************************************************)
IntMax == 2147483647
IntMin == -IntMax - 1

\* a + b modulo 2^32, as a value of IntMin..IntMax
WrapAdd(a, b) ==
    IF a >= 0 /\ b >= 0 /\ a > IntMax - b
      THEN ((a - IntMax) + (b - IntMax)) - 2
    ELSE IF a < 0 /\ b < 0 /\ a < IntMin - b
      THEN ((a + IntMax) + (b + IntMax)) + 2
    ELSE a + b

\* a * b modulo 2^32 for b >= 0, by doubling
RECURSIVE WrapMul(_, _)
WrapMul(a, b) ==
    IF b = 0 THEN 0
    ELSE LET h == WrapMul(a, b \div 2)
             d == WrapAdd(h, h)
         IN  IF b % 2 = 1 THEN WrapAdd(d, a) ELSE d

(***************************************************************************)
(* Pointers: an object and a byte offset into it.                          *)
(***************************************************************************)
NullPtr   == [obj |-> "null", off |-> 0]
MapFailed == [obj |-> "MAP_FAILED", off |-> 0]
MapBase   == [obj |-> "mapping", off |-> 0]

VARIABLES
    \* --- SwayShm ---------------------------------------------------------
    phase,      \* "none" (not constructed), "live", "destroyed"
    op,         \* the member function that ran last, with its argument
    raised,     \* the exception the last call left with, or "none"
    width, height, stride, pool_size,
    fd,         \* the descriptor shm_open returned (-1: it failed)
    pool_data,  \* what mmap returned
    shm,        \* wl_shm*     (0: nullptr)
    pool,       \* wl_shm_pool* (0: nullptr)
    buffers,    \* std::vector<wl_buffer*>
    ret,        \* the pointer the last get_data returned
    \* --- the operating system and the compositor, as the surface sees them
    ns,         \* the shm name in the namespace: "absent", "own", "foreign"
    fd_open,    \* the descriptor table holds fd
    wl_pools,   \* live compositor-side pools
    wl_buffers, \* live compositor-side buffers
    wl_shm,     \* the display's wl_shm global is bound and alive
    calls,      \* every system / compositor call the surface made, in order
    next_id,    \* the next compositor object id
    binds,      \* allocate_pool_buffers calls so far
    \* --- SwaySocket ------------------------------------------------------
    tree,       \* the compositor's layout tree (the GET_TREE reply)
    pc,         \* where get_window_info / current_window stands
    nodes_st,   \* std::stack<njson>, top last
    popped,     \* how often each node was popped
    window,     \* what current_window returned (0: the null document)
    info        \* what get_window_info returned

VARIABLES
    \* --- SwaySocket: construction and ipc_message ------------------------
    env_sock,   \* os::getenv("SWAYSOCK"): "" when the variable is not set
    reachable,  \* a UnixSocket can be connected at that path
    backend,    \* "none", "live", "failed" (constructor threw), "broken"
    socket_path,
    api,        \* the public member function running or run last, with arguments
    todo,       \* the private calls it has still to make, in order
    ipc_pc,     \* where ipc_message stands
    req,        \* ipc_message's arguments: type and payload
    header,     \* ipc_message's local struct ipc_header
    buff,       \* ipc_message's local buff, as the reply it holds
    wire,       \* the reply the compositor has sent and the client has not read
    sock,       \* the socket operations of the current member function, in order
    ncalls,     \* ipc_message calls so far
    rejected,   \* RUN_COMMAND replies so far that reported a failure
    \* --- main.cpp --------------------------------------------------------
    stop_flag,  \* std::atomic<bool> stop_flag
    main_pc,    \* where main stands, or how the process ended
    main_logger,\* spdlog::get("main") finds a logger
    handled,    \* the signals got_signal ran for, in order
    main_log,   \* what got_signal logged, in order
    seen,       \* what the command loop read from stop_flag last
    iterations  \* reads of stop_flag by the command loop so far

ipcVars  == <<env_sock, reachable, backend, socket_path, api, todo, ipc_pc, req,
              header, buff, wire, sock, ncalls, rejected>>
mainVars == <<stop_flag, main_pc, main_logger, handled, main_log, seen,
              iterations>>
shmVars  == <<phase, op, width, height, stride, pool_size, fd, pool_data, shm,
              pool, buffers, ret, ns, fd_open, wl_pools, wl_buffers, wl_shm,
              calls, next_id, binds>>
treeVars == <<tree, pc, nodes_st, popped, window, info>>
vars     == <<shmVars, treeVars, ipcVars, mainVars, raised>>

\* the fields of the SwayShm object
fields == <<width, height, stride, pool_size, fd, pool_data, shm, pool, buffers>>

Call(name, arg) == [call |-> name, arg |-> arg]


(***************************************************************************)
(* SwayShm                                                                 *)
(***************************************************************************)
Nullptr == 0

\* the surface dimensions the constructor is called with
Dims == (1..MaxDim) \cup {BigDim}

\* shm.hpp: the members the constructor does not name start as null / empty
ShmHppDefaults == [shm |-> Nullptr, pool |-> Nullptr, buffers |-> <<>>]

\* stride(width * 4)
Stride(w) == WrapMul(w, 4)

\* pool_size(height * stride * 2)
PoolSize(h, s) == WrapMul(WrapMul(s, h), 2)

\* create_shm_file: shm_open(O_CREAT | O_EXCL), ftruncate, mmap.  No return
\* value is looked at.  open_ok, map_ok: whether the system grants the call;
\* O_EXCL refuses a name that exists, mmap refuses a bad descriptor and a
\* length that is not positive.
create_shm_file(ps, open_ok, map_ok) ==
    LET opened == open_ok /\ ns = "absent"
        mapped == opened /\ map_ok /\ ps > 0
    IN  /\ fd' = IF opened THEN 3 ELSE -1
        /\ fd_open' = opened
        /\ ns' = IF opened THEN "own" ELSE ns
        /\ pool_data' = IF mapped THEN MapBase ELSE MapFailed
        /\ calls' = calls \o <<Call("shm_open", 0), Call("ftruncate", ps),
                               Call("mmap", ps)>>

\* SwayShm::SwayShm(int width, int height)
SwayShm(w, h, open_ok, map_ok) ==
    /\ phase = "none"
    /\ phase' = "live"
    /\ op' = [name |-> "SwayShm", arg |-> 0]
    /\ raised' = "none"
    /\ width' = w
    /\ height' = h
    /\ stride' = Stride(w)
    /\ pool_size' = PoolSize(h, Stride(w))
    /\ shm' = ShmHppDefaults.shm
    /\ pool' = ShmHppDefaults.pool
    /\ buffers' = ShmHppDefaults.buffers
    /\ create_shm_file(PoolSize(h, Stride(w)), open_ok, map_ok)
    /\ UNCHANGED <<ret, wl_pools, wl_buffers, wl_shm, next_id, binds>>
    /\ UNCHANGED <<treeVars, ipcVars, mainVars>>

\* the display announces its wl_shm global and the owner of the surface
\* stores the bound handle in the surface's shm member
RegistryBindShm ==
    /\ phase = "live"
    /\ shm = Nullptr
    /\ shm' = 1
    /\ wl_shm' = TRUE
    /\ op' = [name |-> "registry", arg |-> 0]
    /\ raised' = "none"
    /\ UNCHANGED <<phase, width, height, stride, pool_size, fd, pool_data, pool,
                   buffers, ret, ns, fd_open, wl_pools, wl_buffers, calls,
                   next_id, binds>>
    /\ UNCHANGED <<treeVars, ipcVars, mainVars>>

\* wl_shm_pool_create_buffer(pool, offset, width, height, stride, ARGB8888)
WlBuffer(id, p, offset) ==
    [id |-> id, pool |-> p, offset |-> offset, width |-> width,
     height |-> height, stride |-> stride]

\* allocate_pool_buffers past its null check: one pool, two buffers
CreatePoolAndBuffers ==
    /\ pool' = next_id
    /\ wl_pools' = wl_pools \cup {[id |-> next_id, fd |-> fd, size |-> pool_size]}
    /\ buffers' = buffers \o <<next_id + 1, next_id + 2>>
    /\ wl_buffers' = wl_buffers \cup
                       {WlBuffer(next_id + 1, next_id, 0),
                        WlBuffer(next_id + 2, next_id, WrapMul(stride, height))}
    /\ calls' = calls \o <<Call("wl_shm_create_pool", next_id),
                           Call("wl_shm_pool_create_buffer", next_id + 1),
                           Call("wl_shm_pool_create_buffer", next_id + 2)>>
    /\ next_id' = next_id + 3

AllocateCommon ==
    /\ phase = "live"
    /\ binds < MaxBinds
    /\ binds' = binds + 1
    /\ op' = [name |-> "allocate_pool_buffers", arg |-> 0]
    /\ raised' = "none"
    /\ UNCHANGED <<phase, width, height, stride, pool_size, fd, pool_data, shm,
                   ret, ns, fd_open, wl_shm>>
    /\ UNCHANGED <<treeVars, ipcVars, mainVars>>

AllocateUnguarded ==
    /\ AllocateCommon
    /\ CreatePoolAndBuffers

\* void SwayShm::allocate_pool_buffers()
allocate_pool_buffers ==
    /\ AllocateCommon
    /\ IF shm = Nullptr
         THEN UNCHANGED <<pool, buffers, wl_pools, wl_buffers, calls, next_id>>
         ELSE CreatePoolAndBuffers

\* what get_data returns: &pool_data[offset], or nullptr
GetDataRetOffByOne(pd, offset) ==
    IF offset > 2 THEN NullPtr ELSE [pd EXCEPT !.off = @ + offset]
GetDataRet(pd, offset) ==
    IF offset > 1 THEN NullPtr ELSE [pd EXCEPT !.off = @ + offset]

\* auto SwayShm::get_data(uint32_t offset) -> uint32_t*
get_data(offset) ==
    /\ phase = "live"
    /\ ret' = GetDataRet(pool_data, offset)
    /\ op' = [name |-> "get_data", arg |-> offset]
    /\ raised' = "none"
    /\ UNCHANGED <<phase, width, height, stride, pool_size, fd, pool_data, shm,
                   pool, buffers, ns, fd_open, wl_pools, wl_buffers, wl_shm,
                   calls, next_id, binds>>
    /\ UNCHANGED <<treeVars, ipcVars, mainVars>>

\* the calls the destructor makes, in order
BufferDestroys == [i \in 1..Len(buffers) |-> Call("wl_buffer_destroy", buffers[i])]
PoolDestroy == IF pool # Nullptr THEN <<Call("wl_shm_pool_destroy", pool)>> ELSE <<>>
ShmDestroy  == IF shm # Nullptr THEN <<Call("wl_shm_destroy", shm)>> ELSE <<>>

DtorCallsPoolFirst ==
    <<Call("shm_unlink", 0), Call("close", fd)>>
      \o PoolDestroy \o BufferDestroys \o ShmDestroy
DtorCalls ==
    <<Call("shm_unlink", 0), Call("close", fd)>>
      \o BufferDestroys \o PoolDestroy \o ShmDestroy

Made(cs, name, arg) == \E i \in 1..Len(cs) : cs[i] = Call(name, arg)

\* SwayShm::~SwayShm()
Destroy ==
    /\ phase = "live"
    /\ phase' = "destroyed"
    /\ op' = [name |-> "~SwayShm", arg |-> 0]
    /\ raised' = "none"
    /\ calls' = calls \o DtorCalls
    /\ ns' = IF Made(DtorCalls, "shm_unlink", 0) THEN "absent" ELSE ns
    /\ fd_open' = (fd_open /\ ~Made(DtorCalls, "close", fd))
    /\ wl_buffers' = {b \in wl_buffers : ~Made(DtorCalls, "wl_buffer_destroy", b.id)}
    /\ wl_pools' = {p \in wl_pools : ~Made(DtorCalls, "wl_shm_pool_destroy", p.id)}
    /\ wl_shm' = (wl_shm /\ ~Made(DtorCalls, "wl_shm_destroy", shm))
    /\ UNCHANGED <<width, height, stride, pool_size, fd, pool_data, shm, pool,
                   buffers, ret, next_id, binds>>
    /\ UNCHANGED <<treeVars, ipcVars, mainVars>>

\* the compositor tree used while only the surface is exercised
NoTree == [n |-> 1, parent |-> <<0>>, floating |-> {}, focused |-> {}]

TreeIdle ==
    /\ tree = NoTree
    /\ pc = "off"
    /\ nodes_st = <<>>
    /\ popped = <<0>>
    /\ window = Nullptr
    /\ info = [kind |-> "none", x |-> 0, y |-> 0, width |-> 0, height |-> 0]

\* os::getenv found no SWAYSOCK
Unset == "<unset>"

\* no SwaySocket exists
NoApi    == [name |-> "none", appid |-> "", x |-> 0, y |-> 0]
NoReq    == [type |-> "none", payload |-> ""]
NoHeader == [magic |-> "", len |-> 0, type |-> "none"]
NoReply  == [kind |-> "none", len |-> 0, tree |-> NoTree]

IpcFresh ==
    /\ backend = "none"
    /\ socket_path = ""
    /\ api = NoApi
    /\ todo = <<>>
    /\ ipc_pc = "idle"
    /\ req = NoReq
    /\ header = NoHeader
    /\ buff = NoReply
    /\ wire = NoReply
    /\ sock = <<>>
    /\ ncalls = 0
    /\ rejected = 0

IpcIdle ==
    /\ env_sock = Unset
    /\ reachable = FALSE
    /\ IpcFresh

\* the process has not started
MainIdle ==
    /\ stop_flag = FALSE
    /\ main_pc = "off"
    /\ main_logger = FALSE
    /\ handled = <<>>
    /\ main_log = <<>>
    /\ seen = FALSE
    /\ iterations = 0

ShmIdle ==
    /\ phase = "none"
    /\ op = [name |-> "none", arg |-> 0]
    /\ width = 0 /\ height = 0 /\ stride = 0 /\ pool_size = 0
    /\ fd = 0
    /\ pool_data = NullPtr
    /\ shm = Nullptr /\ pool = Nullptr /\ buffers = <<>>
    /\ ret = NullPtr
    /\ fd_open = FALSE
    /\ wl_pools = {} /\ wl_buffers = {} /\ wl_shm = FALSE
    /\ calls = <<>>
    /\ next_id = 2
    /\ binds = 0

\* before construction; the generated name may already be taken by another
\* process ("foreign")
InitShm ==
    /\ ShmIdle
    /\ ns \in {"absent", "foreign"}
    /\ raised = "none"
    /\ TreeIdle
    /\ IpcIdle
    /\ MainIdle

NextShm ==
    \/ \E w \in Dims, h \in Dims, open_ok \in BOOLEAN, map_ok \in BOOLEAN :
          SwayShm(w, h, open_ok, map_ok)
    \/ RegistryBindShm
    \/ allocate_pool_buffers
    \/ \E offset \in 0..MaxOffset : get_data(offset)
    \/ Destroy

SpecShm == InitShm /\ [][NextShm]_vars


(***************************************************************************)
(* Properties of SwayShm                                                   *)
(***************************************************************************)
Constructed == phase # "none"

\* the release calls, in the order made
ReleaseNames == {"shm_unlink", "close", "wl_buffer_destroy",
                 "wl_shm_pool_destroy", "wl_shm_destroy"}
IsRelease(c) == c.call \in ReleaseNames
Released == SelectSeq(calls, IsRelease)
Rank(c) == CASE c.call = "shm_unlink" -> 1
             [] c.call = "close" -> 2
             [] c.call = "wl_buffer_destroy" -> 3
             [] c.call = "wl_shm_pool_destroy" -> 4
             [] c.call = "wl_shm_destroy" -> 5
             [] OTHER -> 0
Count(name, arg) == Cardinality({i \in 1..Len(calls) : calls[i] = Call(name, arg)})
CountName(name) == Cardinality({i \in 1..Len(calls) : calls[i].call = name})

\* C1: on a surface constructed with width > 0 and height > 0, get_data(0)
\* returns the start of the mapped region and get_data(1) the address
\* height * width * 4 bytes into it (so the two frames do not overlap).
C1_BuffersOneFrameApart ==
    (phase = "live" /\ op.name = "get_data" /\ width > 0 /\ height > 0
       /\ pool_data = MapBase)
    => /\ op.arg = 0 => ret = MapBase
       /\ op.arg = 1 => ret = [obj |-> "mapping", off |-> height * width * 4]

\* C5: on a surface constructed with width > 0 and height > 0, stride is
\* width * 4 and pool_size, the length given to ftruncate and mmap, is
\* 2 * height * width * 4 (stated as pool_size / 8 = height * width, exactly).
C5_StrideAndPoolSize ==
    (Constructed /\ width > 0 /\ height > 0)
    => /\ stride = width * 4
       /\ pool_size % 8 = 0
       /\ pool_size \div 8 = height * width
       /\ Made(calls, "ftruncate", pool_size)
       /\ Made(calls, "mmap", pool_size)

\* C6: get_data with an index other than 0 or 1 returns nullptr, raises
\* nothing, and changes no field of the surface and nothing it owns.
C6_InvalidIndexReturnsNull ==
    [][(op'.name = "get_data" /\ op'.arg > 1)
         => /\ ret' = NullPtr
            /\ raised' = "none"
            /\ phase' = phase
            /\ UNCHANGED fields
            /\ UNCHANGED <<ns, fd_open, wl_pools, wl_buffers, wl_shm, calls>>]_vars

C6_Witness ==
    /\ phase = "live" /\ pool_data = MapBase
    /\ op.name = "get_data" /\ op.arg = 2
    /\ ret = NullPtr

\* C7: the destructor releases in the order unlink, close, every buffer,
\* the pool, the wl_shm object: no release of a later group precedes one of
\* an earlier group, and unlink and close come first.
C7_DestructionOrder ==
    phase = "destroyed"
    => /\ Len(Released) >= 2
       /\ Released[1].call = "shm_unlink"
       /\ Released[2].call = "close"
       /\ \A i, j \in 1..Len(Released) :
             i < j => Rank(Released[i]) <= Rank(Released[j])
       /\ \A i, j \in 1..Len(calls) :
             (i < j /\ IsRelease(calls[i])) => IsRelease(calls[j])

C7_Witness ==
    /\ phase = "destroyed"
    /\ CountName("wl_buffer_destroy") = 4
    /\ CountName("wl_shm_pool_destroy") = 1
    /\ CountName("wl_shm_destroy") = 1

\* C8: the destructor makes a release call exactly when the handle it
\* releases was obtained, and releases every obtained handle exactly once:
\* close only for a descriptor shm_open returned, unlink only for a name this
\* surface created, and one destroy for every compositor object created.
C8_ReleaseIffObtained ==
    phase = "destroyed"
    => /\ CountName("close") = (IF fd # -1 THEN 1 ELSE 0)
       /\ CountName("shm_unlink") = (IF fd # -1 THEN 1 ELSE 0)
       /\ \A i \in 1..Len(calls) :
             /\ calls[i].call = "wl_shm_create_pool"
                  => Count("wl_shm_pool_destroy", calls[i].arg) = 1
             /\ calls[i].call = "wl_shm_pool_create_buffer"
                  => Count("wl_buffer_destroy", calls[i].arg) = 1
       /\ CountName("wl_shm_pool_destroy") = CountName("wl_shm_create_pool")
       /\ CountName("wl_buffer_destroy") = CountName("wl_shm_pool_create_buffer")
       /\ CountName("wl_shm_destroy") = (IF shm # Nullptr THEN 1 ELSE 0)

\* C9: allocate_pool_buffers called while shm is null creates no pool and
\* no buffer, raises nothing and leaves every field of the surface as it was.
C9_BindWithoutHandleIsNoOp ==
    [][(op'.name = "allocate_pool_buffers" /\ shm = Nullptr)
         => /\ UNCHANGED fields
            /\ UNCHANGED <<wl_pools, wl_buffers, calls, next_id>>
            /\ raised' = "none"
            /\ phase' = phase]_vars

C9_Witness ==
    /\ phase = "live"
    /\ op.name = "allocate_pool_buffers"
    /\ shm = Nullptr
    /\ pool = Nullptr /\ buffers = <<>> /\ wl_pools = {} /\ wl_buffers = {}

\* C10: when shm_open or mmap fails in the constructor the caller gets a
\* construction failure, and neither allocate_pool_buffers nor get_data ever
\* runs on a surface whose descriptor or mapping is invalid.
C10_FailedConstructionIsPropagated ==
    (Constructed /\ (fd = -1 \/ pool_data = MapFailed))
    => /\ op.name = "SwayShm"
       /\ raised # "none"


\* the bytes of the mapping a compositor-side buffer covers: first, past-last
BufferOf(k) == CHOOSE b \in wl_buffers : b.id = buffers[k + 1]
BufferLo(k) == BufferOf(k).offset
BufferHi(k) == BufferOf(k).offset + BufferOf(k).height * BufferOf(k).stride

\* C16: whatever allocate_pool_buffers calls were made, a live surface holds
\* no compositor-side handle, or exactly one pool and exactly two buffers:
\* the first at bytes [0, height*stride), the second at
\* [height*stride, 2*height*stride), both width x height with the stride.
C16_OnePoolTwoBuffers ==
    phase = "live"
    => \/ /\ pool = Nullptr /\ buffers = <<>>
          /\ wl_pools = {} /\ wl_buffers = {}
       \/ /\ wl_pools = {[id |-> pool, fd |-> fd, size |-> pool_size]}
          /\ Len(buffers) = 2
          /\ wl_buffers =
               {[id |-> buffers[1], pool |-> pool, offset |-> 0,
                 width |-> width, height |-> height, stride |-> stride],
                [id |-> buffers[2], pool |-> pool, offset |-> height * stride,
                 width |-> width, height |-> height, stride |-> stride]}

\* C17: a frame (height*stride bytes) written through the pointer
\* get_data(i) returned lies inside compositor buffer i and shares no byte
\* with compositor buffer 1-i, which the compositor may still be reading.
C17_WriterStaysInItsBuffer ==
    (phase = "live" /\ op.name = "get_data" /\ op.arg \in {0, 1}
       /\ pool_data = MapBase /\ Len(buffers) >= 2)
    => LET i  == op.arg
           lo == ret.off
           hi == ret.off + height * stride
       IN  /\ ret.obj = "mapping"
           /\ BufferLo(i) <= lo /\ hi <= BufferHi(i)
           /\ (hi <= BufferLo(1 - i) \/ BufferHi(1 - i) <= lo)

(***************************************************************************)
(* SwaySocket: get_window_info and current_window                          *)
(*                                                                         *)
(* A tree has nodes 1..n, node 1 the root.  parent[k] is the node whose    *)
(* "nodes" or "floating_nodes" list holds k (the latter when k is in       *)
(* floating); both lists are in ascending order of k.  focused is the set  *)
(* of nodes whose "focused" is true.                                       *)
(***************************************************************************)
ParentMaps(n) ==
    {p \in [1..n -> 0..n] : p[1] = 0 /\ \A k \in 2..n : p[k] \in 1..(k - 1)}

TreesUpTo(m) ==
    UNION {{[n |-> n, parent |-> p, floating |-> fl, focused |-> fo] :
              p \in ParentMaps(n), fl \in SUBSET (2..n), fo \in SUBSET (1..n)} :
           n \in 1..m}

Trees == TreesUpTo(MaxNodes)

\* the elements of a set of numbers, ascending
RECURSIVE Ascending(_)
Ascending(S) ==
    IF S = {} THEN <<>>
    ELSE LET m == CHOOSE x \in S : \A y \in S : x <= y
         IN  <<m>> \o Ascending(S \ {m})

\* top["nodes"], top["floating_nodes"], top["rect"]
NodesOf(t, k) == Ascending({c \in 2..t.n : t.parent[c] = k /\ c \notin t.floating})
FloatingNodesOf(t, k) == Ascending({c \in 2..t.n : t.parent[c] = k /\ c \in t.floating})
RectOf(k) == [x |-> k, y |-> 10 + k, width |-> 100 + k, height |-> 200 + k]

\* the nodes one loop iteration pushes for an unfocused node, in push order
PushedTiledOnly(t, k) == NodesOf(t, k)
Pushed(t, k) == NodesOf(t, k) \o FloatingNodesOf(t, k)

\* the null document current_window returns when the stack runs empty
NullDocument == 0
NotFoundIsRoot == NullDocument + 1
NotFound == NullDocument

NoInfo == [kind |-> "none", x |-> 0, y |-> 0, width |-> 0, height |-> 0]

\* get_window_info, after current_window returned w: window["rect"] and the
\* four fields of it.  window is a const json, and operator[] with a key on
\* a const json that is not an object throws json::type_error (305).
GetWindowInfoNullAsEmpty(w) ==
    IF w = NullDocument
      THEN [raised |-> "none",
            info |-> [kind |-> "WaylandWindow", x |-> 0, y |-> 0,
                      width |-> 0, height |-> 0]]
      ELSE [raised |-> "none",
            info |-> [kind |-> "WaylandWindow", x |-> RectOf(w).x,
                      y |-> RectOf(w).y, width |-> RectOf(w).width,
                      height |-> RectOf(w).height]]
GetWindowInfoResult(w) ==
    IF w = NullDocument
      THEN [raised |-> "json.type_error", info |-> NoInfo]
      ELSE [raised |-> "none",
            info |-> [kind |-> "WaylandWindow", x |-> RectOf(w).x,
                      y |-> RectOf(w).y, width |-> RectOf(w).width,
                      height |-> RectOf(w).height]]

\* get_window_info calls current_window, which gets the tree and pushes it
get_window_info_call ==
    /\ pc = "idle"
    /\ pc' = "loop"
    /\ nodes_st' = <<1>>
    /\ UNCHANGED <<tree, popped, window, info, raised>>
    /\ UNCHANGED <<shmVars, ipcVars, mainVars>>

\* one iteration of while (!nodes_st.empty())
current_window_loop ==
    /\ pc = "loop"
    /\ nodes_st # <<>>
    /\ LET top  == nodes_st[Len(nodes_st)]
           rest == SubSeq(nodes_st, 1, Len(nodes_st) - 1)
       IN  /\ popped' = [popped EXCEPT ![top] = @ + 1]
           /\ IF top \in tree.focused
                THEN /\ window' = top
                     /\ pc' = "returned"
                     /\ nodes_st' = rest
                ELSE /\ nodes_st' = rest \o Pushed(tree, top)
                     /\ UNCHANGED <<window, pc>>
    /\ UNCHANGED <<tree, info, raised>>
    /\ UNCHANGED <<shmVars, ipcVars, mainVars>>

\* the loop ends with the stack empty: return nullptr
current_window_notfound ==
    /\ pc = "loop"
    /\ nodes_st = <<>>
    /\ window' = NotFound
    /\ pc' = "returned"
    /\ UNCHANGED <<tree, nodes_st, popped, info, raised>>
    /\ UNCHANGED <<shmVars, ipcVars, mainVars>>

\* the rest of get_window_info
get_window_info_return ==
    /\ pc = "returned"
    /\ pc' = "done"
    /\ raised' = GetWindowInfoResult(window).raised
    /\ info' = GetWindowInfoResult(window).info
    /\ UNCHANGED <<tree, nodes_st, popped, window>>
    /\ UNCHANGED <<shmVars, ipcVars, mainVars>>

InitTree ==
    /\ ShmIdle
    /\ ns = "absent"
    /\ raised = "none"
    /\ tree \in Trees
    /\ pc = "idle"
    /\ nodes_st = <<>>
    /\ popped = [k \in 1..tree.n |-> 0]
    /\ window = NullDocument
    /\ info = NoInfo
    /\ IpcIdle
    /\ MainIdle

NextTree ==
    \/ get_window_info_call
    \/ current_window_loop
    \/ current_window_notfound
    \/ get_window_info_return

SpecTree == InitTree /\ [][NextTree]_vars

\* get_window_info runs on one thread, which nothing suspends
FairSpecTree == SpecTree /\ WF_vars(NextTree)

(***************************************************************************)
(* Properties of the focused-window query                                  *)
(***************************************************************************)
Returned == pc \in {"returned", "done"}
NoFocus  == tree.focused = {}
OneFocus == Cardinality(tree.focused) = 1
TheFocused == CHOOSE k \in tree.focused : TRUE

\* C2: in a tree with exactly one focused node, wherever it is, the search
\* returns that node and get_window_info returns that node's rect.
C2_FocusedNodeIsFound ==
    (OneFocus /\ Returned)
    => /\ window = TheFocused
       /\ pc = "done"
            => /\ raised = "none"
               /\ info = [kind |-> "WaylandWindow",
                          x |-> RectOf(TheFocused).x,
                          y |-> RectOf(TheFocused).y,
                          width |-> RectOf(TheFocused).width,
                          height |-> RectOf(TheFocused).height]

\* the focused node is below the root and only a floating_nodes list holds it
C2_Witness ==
    /\ pc = "done"
    /\ OneFocus
    /\ TheFocused \in tree.floating
    /\ tree.parent[TheFocused] # 1
    /\ window = TheFocused
    /\ info.kind = "WaylandWindow"

\* C3: in a tree with no focused node the search terminates, having popped
\* every node exactly once, with the stack empty, and returns the null
\* document, which is no node of the tree.
C3_NoFocusTerminatesNotFound ==
    /\ []((NoFocus /\ Returned)
            => /\ window = NullDocument
               /\ window \notin 1..tree.n
               /\ nodes_st = <<>>
               /\ \A k \in 1..tree.n : popped[k] = 1)
    /\ [](NoFocus => \A k \in 1..tree.n : popped[k] <= 1)
    /\ (NoFocus ~> Returned)

C3_Witness ==
    /\ NoFocus
    /\ pc = "returned"
    /\ tree.n = MaxNodes
    /\ tree.floating # {}
    /\ window = NullDocument
    /\ \A k \in 1..tree.n : popped[k] = 1

\* C4: when the search found no focused window get_window_info ends in an
\* exception that reaches its caller; it returns no WaylandWindow, and no
\* field of the null document is read into one.
C4_NotFoundIsAnError ==
    (pc = "done" /\ window = NullDocument)
    => /\ raised = "json.type_error"
       /\ info = NoInfo

C4_Witness ==
    /\ pc = "done"
    /\ NoFocus
    /\ window = NullDocument
    /\ raised = "json.type_error"


(***************************************************************************)
(* main.cpp: the stop flag and the signal handler                          *)
(***************************************************************************)
\* signals delivered to one run of the process, and reads of stop_flag by
\* the command loop
MaxSignals == 2
MaxIterations == 2

\* the signals main installs got_signal for
Signals == {"SIGINT", "SIGTERM", "SIGHUP"}

\* what got_signal stores into stop_flag
GotSignalStoreSigintOnly(signal) == signal = "SIGINT"
GotSignalStore(signal) == TRUE

\* what got_signal logs
GotSignalMessage(signal) ==
    CASE signal = "SIGINT"  -> "SIGINT received, exiting."
      [] signal = "SIGTERM" -> "SIGTERM received, exiting."
      [] signal = "SIGHUP"  -> "SIGHUP received, exiting."
      [] OTHER              -> "UNKNOWN signal received, exiting."

\* std::atomic<bool> stop_flag(false), at process start
InitMain ==
    /\ stop_flag = FALSE
    /\ main_pc = "start"
    /\ main_logger = FALSE
    /\ handled = <<>>
    /\ main_log = <<>>
    /\ seen = FALSE
    /\ iterations = 0
    /\ raised = "none"
    /\ ShmIdle /\ ns = "absent"
    /\ TreeIdle
    /\ IpcIdle

MainFrame == UNCHANGED <<shmVars, treeVars, ipcVars, raised>>

\* main, lines 51-57: the three sigaction calls
InstallHandlers ==
    /\ main_pc = "start"
    /\ main_pc' = "handlers"
    /\ UNCHANGED <<stop_flag, main_logger, handled, main_log, seen, iterations>>
    /\ MainFrame

\* main, lines 59-75: the command line is parsed and vips initialised;
\* either may end the process
ParseAndInit(ok) ==
    /\ main_pc = "handlers"
    /\ main_pc' = IF ok THEN "ready" ELSE "exit"
    /\ UNCHANGED <<stop_flag, main_logger, handled, main_log, seen, iterations>>
    /\ MainFrame

\* main, line 77: Application application; it sets up the loggers
ConstructApplication ==
    /\ main_pc = "ready"
    /\ main_pc' = "loop"
    /\ main_logger' = TRUE
    /\ UNCHANGED <<stop_flag, handled, main_log, seen, iterations>>
    /\ MainFrame

\* application.command_loop(stop_flag): one read of the flag; the loop ends
\* when it reads true
CommandLoop ==
    /\ main_pc = "loop"
    /\ iterations < MaxIterations
    /\ iterations' = iterations + 1
    /\ seen' = stop_flag
    /\ main_pc' = IF stop_flag THEN "shutdown" ELSE "loop"
    /\ UNCHANGED <<stop_flag, main_logger, handled, main_log>>
    /\ MainFrame

\* the command loop ends for another reason (its input is closed)
CommandLoopEnds ==
    /\ main_pc = "loop"
    /\ main_pc' = "shutdown"
    /\ UNCHANGED <<stop_flag, main_logger, handled, main_log, seen, iterations>>
    /\ MainFrame

\* main, lines 80-81
Shutdown ==
    /\ main_pc = "shutdown"
    /\ main_pc' = "exit"
    /\ UNCHANGED <<stop_flag, main_logger, handled, main_log, seen, iterations>>
    /\ MainFrame

Running == main_pc \in {"start", "handlers", "ready", "loop", "shutdown"}

\* a signal of Signals arrives before sigaction ran: the default action ends
\* the process
SignalDefault(signal) ==
    /\ main_pc = "start"
    /\ main_pc' = "killed"
    /\ UNCHANGED <<stop_flag, main_logger, handled, main_log, seen, iterations>>
    /\ MainFrame

\* void got_signal(const int signal).  The store comes first; then the
\* logger is fetched and used.  Without a registered "main" logger
\* spdlog::get returns a null pointer and logger->error dereferences it:
\* the process crashes or carries on.
got_signal(signal, survives) ==
    /\ Running /\ main_pc # "start"
    /\ Len(handled) < MaxSignals
    /\ stop_flag' = GotSignalStore(signal)
    /\ handled' = Append(handled, signal)
    /\ IF main_logger
         THEN /\ main_log' = Append(main_log, GotSignalMessage(signal))
              /\ UNCHANGED main_pc
         ELSE /\ UNCHANGED main_log
              /\ main_pc' = IF survives THEN main_pc ELSE "crashed"
    /\ UNCHANGED <<main_logger, seen, iterations>>
    /\ MainFrame

NextMain ==
    \/ InstallHandlers
    \/ \E ok \in BOOLEAN : ParseAndInit(ok)
    \/ ConstructApplication
    \/ CommandLoop
    \/ CommandLoopEnds
    \/ Shutdown
    \/ \E signal \in Signals : SignalDefault(signal)
    \/ \E signal \in Signals, survives \in BOOLEAN : got_signal(signal, survives)

SpecMain == InitMain /\ [][NextMain]_vars

\* C19: stop_flag is false at start and until a signal is handled, is true
\* from the moment got_signal has run for SIGINT, SIGTERM or SIGHUP, is never
\* reset to false, and every later read by the command loop sees true.
C19_StopFlagLatches ==
    /\ stop_flag = FALSE
    /\ [](handled = <<>> => stop_flag = FALSE)
    /\ [](handled # <<>> => stop_flag = TRUE)
    /\ [][stop_flag => stop_flag']_vars
    /\ [][(stop_flag /\ iterations' # iterations) => seen']_vars

\* the flag was set by a handled signal and the command loop then read it
C19_Witness ==
    /\ Len(handled) = MaxSignals
    /\ handled[1] # handled[2]
    /\ stop_flag
    /\ seen
    /\ main_pc = "shutdown"


(***************************************************************************)
(* SwaySocket: construction, the command strings and ipc_message           *)
(***************************************************************************)
\* ipc_message calls made on one SwaySocket
MaxCalls == 3
\* GET_TREE replies carry trees of 1..MaxIpcNodes nodes
MaxIpcNodes == 1

\* the arguments the member functions are called with
AppIds == {"term-1", "kitty"}
Coords == {-7, 0, 100}
SockPaths == {"/run/user/1000/sway-ipc.sock"}

\* fmt::format("{}", n) for an int n
Digit(d) == SubSeq("0123456789", d + 1, d + 1)
RECURSIVE NatToStr(_)
NatToStr(n) == IF n < 10 THEN Digit(n) ELSE NatToStr(n \div 10) \o Digit(n % 10)
IntToStr(n) == IF n < 0 THEN "-" \o NatToStr(-n) ELSE NatToStr(n)

\* disable_focus: fmt::format(R"(no_focus [app_id="{}"])", appid)
NoFocusCommand(appid) == "no_focus [app_id=\"" \o appid \o "\"]"

\* ipc_command(appid, command):
\* fmt::format(R"(for_window [app_id="{}"] {})", appid, command)
ForWindowCommand(appid, command) ==
    "for_window [app_id=\"" \o appid \o "\"] " \o command

\* move_window: fmt::format("move absolute position {} {}", xcoord, ycoord)
MoveCommandSwapped(x, y) ==
    "move absolute position " \o IntToStr(y) \o " " \o IntToStr(x)
MoveCommand(x, y) ==
    "move absolute position " \o IntToStr(x) \o " " \o IntToStr(y)

\* the private calls of the public member functions, in order
InitialSetupCallsReversed == <<"enable_floating", "disable_focus">>
InitialSetupCalls == <<"disable_focus", "enable_floating">>

\* what a private call passes to ipc_message
RequestOf(sub, a) ==
    CASE sub = "disable_focus" ->
           [type |-> "IPC_COMMAND", payload |-> NoFocusCommand(a.appid)]
      [] sub = "enable_floating" ->
           [type |-> "IPC_COMMAND",
            payload |-> ForWindowCommand(a.appid, "floating enable")]
      [] sub = "move_window" ->
           [type |-> "IPC_COMMAND",
            payload |-> ForWindowCommand(a.appid, MoveCommand(a.x, a.y))]
      [] sub = "current_window" ->
           [type |-> "IPC_GET_TREE", payload |-> ""]

\* constexpr ipc_magic, ipc_header_size
ipc_magic == "i3-ipc"
ipc_header_size == Len(ipc_magic) + 8

\* header.len = payload.size(); header.type = type; the magic is copied
MakeHeaderCountsNul(type, payload) ==
    [magic |-> ipc_magic, len |-> Len(payload) + 1, type |-> type]
MakeHeader(type, payload) ==
    [magic |-> ipc_magic, len |-> Len(payload), type |-> type]

\* one operation on the socket
SockOp(o, part, bytes, h, payload) ==
    [op |-> o, part |-> part, bytes |-> bytes, header |-> h, payload |-> payload]

\* a member function is running
ApiRunning == todo # <<>> \/ ipc_pc # "idle" \/ pc \in {"loop", "returned"}
Ready == backend = "live" /\ ~ApiRunning

IpcFrame == UNCHANGED <<shmVars, mainVars>>

\* std::make_unique<UnixSocket>(socket_path): connects, or throws
ConnectSocket ==
    /\ socket_path' = env_sock
    /\ sock' = <<SockOp("connect", "", 0, NoHeader, env_sock)>>
    /\ backend' = IF reachable THEN "live" ELSE "failed"
    /\ raised' = IF reachable THEN "none" ELSE "system_error: connect"

ConstructCommon ==
    /\ backend = "none"
    /\ UNCHANGED <<env_sock, reachable, api, todo, ipc_pc, req, header, buff,
                   wire, ncalls, rejected>>
    /\ UNCHANGED treeVars
    /\ IpcFrame

SwaySocketUnchecked ==
    /\ ConstructCommon
    /\ ConnectSocket

\* SwaySocket::SwaySocket()
SwaySocket ==
    /\ ConstructCommon
    /\ IF env_sock = Unset
         THEN /\ raised' = "runtime_error: SWAY NOT SUPPORTED"
              /\ backend' = "failed"
              /\ UNCHANGED <<socket_path, sock>>
         ELSE ConnectSocket

\* a public member function is entered
Enter(name, appid, x, y, subs) ==
    /\ Ready
    /\ ncalls + Len(subs) <= MaxCalls
    /\ api' = [name |-> name, appid |-> appid, x |-> x, y |-> y]
    /\ todo' = subs
    /\ sock' = <<>>
    /\ raised' = "none"
    /\ UNCHANGED <<env_sock, reachable, backend, socket_path, ipc_pc, req,
                   header, buff, wire, ncalls, rejected>>
    /\ UNCHANGED treeVars
    /\ IpcFrame

\* void SwaySocket::initial_setup(const std::string_view appid)
initial_setup(appid) == Enter("initial_setup", appid, 0, 0, InitialSetupCalls)

\* void SwaySocket::move_window(appid, xcoord, ycoord)
move_window(appid, x, y) == Enter("move_window", appid, x, y, <<"move_window">>)

\* auto SwaySocket::get_window_info(), up to its call of current_window
get_window_info == Enter("get_window_info", "", 0, 0, <<"current_window">>)


\* what the compositor answers
SuccessText == "[{\"success\":true}]"
FailureText == "[{\"success\":false,\"error\":\"No matching node.\"}]"
Malformed == [kind |-> "malformed", len |-> 1, tree |-> NoTree]
CommandReplies ==
    {[kind |-> "success", len |-> Len(SuccessText), tree |-> NoTree],
     [kind |-> "failure", len |-> Len(FailureText), tree |-> NoTree],
     Malformed}
TreeReplies ==
    {[kind |-> "tree", len |-> 64 * t.n, tree |-> t] : t \in TreesUpTo(MaxIpcNodes)}
      \cup {Malformed}
Replies(type) == IF type = "IPC_GET_TREE" THEN TreeReplies ELSE CommandReplies

\* UnixSocket::write / read: returns, or throws
IoOutcomes == BOOLEAN

\* the statement after each socket call of ipc_message
AfterSkipsPayloadRead(p) ==
    CASE p = "write_header"  -> "write_payload"
      [] p = "write_payload" -> "read_header"
      [] p = "read_header"   -> "parse"
      [] p = "read_payload"  -> "parse"
After(p) ==
    CASE p = "write_header"  -> "write_payload"
      [] p = "write_payload" -> "read_header"
      [] p = "read_header"   -> "read_payload"
      [] p = "read_payload"  -> "parse"

\* njson::parse(buff): the exception it throws, if any.  A reply that
\* reports a failed command is a well-formed document.
ParseExceptionOnFailure(reply) ==
    IF reply.kind = "malformed" THEN "json.parse_error"
    ELSE IF reply.kind = "failure" THEN "runtime_error: command failed"
    ELSE "none"
ParseException(reply) ==
    IF reply.kind = "malformed" THEN "json.parse_error" ELSE "none"

\* an exception leaves ipc_message and the member function that called it
Throw(e, broken) ==
    /\ raised' = e
    /\ todo' = <<>>
    /\ ipc_pc' = "idle"
    /\ backend' = IF broken THEN "broken" ELSE backend

Proceed ==
    /\ ipc_pc' = After(ipc_pc)
    /\ UNCHANGED <<raised, todo, backend>>

\* ipc_message, lines 170-177: the header is built
ipc_message_enter ==
    /\ backend = "live"
    /\ ipc_pc = "idle"
    /\ todo # <<>>
    /\ LET r == RequestOf(Head(todo), api)
       IN  /\ req' = r
           /\ header' = MakeHeader(r.type, r.payload)
    /\ ipc_pc' = "write_header"
    /\ ncalls' = ncalls + 1
    /\ UNCHANGED <<env_sock, reachable, backend, socket_path, api, todo, buff,
                   wire, sock, rejected, raised>>
    /\ UNCHANGED treeVars
    /\ IpcFrame

\* socket->write(&header, ipc_header_size)
write_header(ok) ==
    /\ ipc_pc = "write_header"
    /\ sock' = Append(sock, SockOp("write", "header", ipc_header_size, header, ""))
    /\ IF ok THEN Proceed ELSE Throw("system_error: write", TRUE)
    /\ UNCHANGED <<env_sock, reachable, socket_path, api, req, header, buff,
                   wire, ncalls, rejected>>
    /\ UNCHANGED treeVars
    /\ IpcFrame

\* socket->write(payload.data(), payload.size()); the compositor, having the
\* whole request, sends its reply
write_payload(ok, reply) ==
    /\ ipc_pc = "write_payload"
    /\ sock' = Append(sock, SockOp("write", "payload", Len(req.payload),
                                   NoHeader, req.payload))
    /\ IF ok THEN Proceed /\ wire' = reply
             ELSE Throw("system_error: write", TRUE) /\ UNCHANGED wire
    /\ UNCHANGED <<env_sock, reachable, socket_path, api, req, header, buff,
                   ncalls, rejected>>
    /\ UNCHANGED treeVars
    /\ IpcFrame

\* socket->read(&header, ipc_header_size)
read_header(ok) ==
    /\ ipc_pc = "read_header"
    /\ LET h == [magic |-> ipc_magic, len |-> wire.len, type |-> req.type]
       IN  IF ok
             THEN /\ header' = h
                  /\ sock' = Append(sock, SockOp("read", "header",
                                                 ipc_header_size, h, ""))
                  /\ Proceed
             ELSE /\ UNCHANGED header
                  /\ sock' = Append(sock, SockOp("read", "header",
                                                 ipc_header_size, NoHeader, ""))
                  /\ Throw("system_error: read", TRUE)
    /\ UNCHANGED <<env_sock, reachable, socket_path, api, req, buff, wire,
                   ncalls, rejected>>
    /\ UNCHANGED treeVars
    /\ IpcFrame

\* std::string buff(header.len, 0); socket->read(buff.data(), buff.size())
read_payload(ok) ==
    /\ ipc_pc = "read_payload"
    /\ sock' = Append(sock, SockOp("read", "payload", header.len, NoHeader, ""))
    /\ IF ok THEN /\ buff' = wire
                  /\ wire' = NoReply
                  /\ Proceed
             ELSE /\ UNCHANGED <<buff, wire>>
                  /\ Throw("system_error: read", TRUE)
    /\ UNCHANGED <<env_sock, reachable, socket_path, api, req, header, ncalls,
                   rejected>>
    /\ UNCHANGED treeVars
    /\ IpcFrame

\* return njson::parse(buff), and what the caller does with the document:
\* the command functions drop it (std::ignore), current_window pushes it
ipc_message_return ==
    /\ ipc_pc = "parse"
    /\ IF ParseException(buff) # "none"
         THEN /\ Throw(ParseException(buff), FALSE)
              /\ UNCHANGED rejected
              /\ UNCHANGED treeVars
         ELSE /\ ipc_pc' = "idle"
              /\ todo' = Tail(todo)
              /\ raised' = "none"
              /\ UNCHANGED backend
              /\ rejected' = rejected + (IF buff.kind = "failure" THEN 1 ELSE 0)
              /\ IF Head(todo) = "current_window"
                   THEN /\ tree' = buff.tree
                        /\ nodes_st' = <<1>>
                        /\ popped' = [k \in 1..buff.tree.n |-> 0]
                        /\ pc' = "loop"
                        /\ window' = NullDocument
                        /\ info' = NoInfo
                   ELSE UNCHANGED treeVars
    /\ UNCHANGED <<env_sock, reachable, socket_path, api, req, header, buff,
                   wire, sock, ncalls>>
    /\ IpcFrame

InitIpc ==
    /\ env_sock \in SockPaths \cup {Unset}
    /\ reachable \in BOOLEAN
    /\ IpcFresh
    /\ raised = "none"
    /\ ShmIdle /\ ns = "absent"
    /\ TreeIdle
    /\ MainIdle

NextIpc ==
    \/ SwaySocket
    \/ \E appid \in AppIds : initial_setup(appid)
    \/ \E appid \in AppIds, x \in Coords, y \in Coords : move_window(appid, x, y)
    \/ get_window_info
    \/ ipc_message_enter
    \/ \E ok \in IoOutcomes : write_header(ok)
    \/ \E ok \in IoOutcomes, reply \in Replies(req.type) : write_payload(ok, reply)
    \/ \E ok \in IoOutcomes : read_header(ok)
    \/ \E ok \in IoOutcomes : read_payload(ok)
    \/ ipc_message_return
    \/ current_window_loop
    \/ current_window_notfound
    \/ get_window_info_return

SpecIpc == InitIpc /\ [][NextIpc]_vars


(***************************************************************************)
(* Properties of SwaySocket                                                *)
(***************************************************************************)
\* reading text as the compositor does
IsPrefix(p, s) == Len(p) <= Len(s) /\ SubSeq(s, 1, Len(p)) = p
IsSuffix(p, s) == Len(p) <= Len(s) /\ SubSeq(s, Len(s) - Len(p) + 1, Len(s)) = p
Contains(s, p) ==
    \E i \in 1..(Len(s) - Len(p) + 1) : SubSeq(s, i, i + Len(p) - 1) = p
IsNat(s) ==
    /\ Len(s) > 0
    /\ \A i \in 1..Len(s) : \E d \in 0..9 : Digit(d) = SubSeq(s, i, i)
IsInt(s) ==
    \/ IsNat(s)
    \/ Len(s) > 1 /\ SubSeq(s, 1, 1) = "-" /\ IsNat(SubSeq(s, 2, Len(s)))
DigitVal(c) == CHOOSE d \in 0..9 : Digit(d) = c
RECURSIVE StrToNat(_)
StrToNat(s) ==
    IF Len(s) = 0 THEN 0
    ELSE StrToNat(SubSeq(s, 1, Len(s) - 1)) * 10
           + DigitVal(SubSeq(s, Len(s), Len(s)))
StrToInt(s) ==
    IF SubSeq(s, 1, 1) = "-" THEN 0 - StrToNat(SubSeq(s, 2, Len(s)))
    ELSE StrToNat(s)

\* the criteria that select the windows of one application
Scope(appid) == "[app_id=\"" \o appid \o "\"]"

\* text is "<x> <y>" for the decimal numbers x and y
TwoNumbers(text, x, y) ==
    \E sp \in 1..Len(text) :
       /\ SubSeq(text, sp, sp) = " "
       /\ IsInt(SubSeq(text, 1, sp - 1))
       /\ IsInt(SubSeq(text, sp + 1, Len(text)))
       /\ StrToInt(SubSeq(text, 1, sp - 1)) = x
       /\ StrToInt(SubSeq(text, sp + 1, Len(text))) = y

\* the socket operations belong to a member function (not to the constructor)
InApi == api.name # "none"
ReturnedNormally == ~ApiRunning /\ raised = "none"
IsWrite(i, part) == sock[i].op = "write" /\ sock[i].part = part
IsRead(i, part)  == sock[i].op = "read" /\ sock[i].part = part

\* C11: the socket operations of every ipc_message call are, in this order,
\* write header, write payload, read header, read of exactly header.len
\* bytes; nothing else touches the socket, a call that returns has made all
\* four, and a request is begun only when every earlier reply was read.
C11_HalfDuplexRoundTrip ==
    InApi
    => /\ \A i \in 1..Len(sock) :
             LET k == ((i - 1) % 4) + 1
             IN  /\ k = 1 => IsWrite(i, "header") /\ sock[i].bytes = ipc_header_size
                 /\ k = 2 => IsWrite(i, "payload")
                 /\ k = 3 => IsRead(i, "header") /\ sock[i].bytes = ipc_header_size
                 /\ k = 4 => IsRead(i, "payload")
                              /\ sock[i].bytes = sock[i - 1].header.len
       /\ ipc_pc = "write_header" => Len(sock) % 4 = 0
       /\ ipc_pc = "write_payload" => Len(sock) % 4 = 1
       /\ ipc_pc = "read_header" => Len(sock) % 4 = 2
       /\ ipc_pc = "read_payload" => Len(sock) % 4 = 3
       /\ ipc_pc = "parse" => Len(sock) % 4 = 0 /\ Len(sock) > 0
       /\ (ipc_pc = "idle" /\ raised = "none") => Len(sock) % 4 = 0

\* a GET_TREE round trip is complete and its reply is being searched
C11_Witness ==
    /\ api.name = "get_window_info"
    /\ Len(sock) = 4
    /\ IsRead(4, "payload") /\ sock[4].bytes = sock[3].header.len
    /\ sock[4].bytes > 0
    /\ pc = "loop"

\* C12: every header written carries the 6-byte magic "i3-ipc", as length
\* the byte length of the payload written next (0 for GET_TREE), and as type
\* the message type its caller passed.
C12_RequestFrames ==
    InApi
    => \A i \in 1..Len(sock) :
          IsWrite(i, "header")
          => /\ sock[i].header.magic = "i3-ipc"
             /\ Len(sock[i].header.magic) = 6
             /\ sock[i].header.type = (IF api.name = "get_window_info"
                                         THEN "IPC_GET_TREE" ELSE "IPC_COMMAND")
             /\ api.name = "get_window_info" => sock[i].header.len = 0
             /\ api.name # "get_window_info" => sock[i].header.len > 0
             /\ i < Len(sock)
                  => /\ IsWrite(i + 1, "payload")
                     /\ sock[i].header.len = Len(sock[i + 1].payload)
                     /\ sock[i + 1].bytes = Len(sock[i + 1].payload)

C12_Witness ==
    /\ api.name = "move_window"
    /\ Len(sock) >= 2
    /\ IsWrite(1, "header") /\ IsWrite(2, "payload")
    /\ sock[1].header.len = Len(sock[2].payload)
    /\ sock[1].header.len > 0

\* C13: without SWAYSOCK the constructor throws before a socket is opened:
\* no socket operation is ever made, no SwaySocket exists to call, and no
\* second attempt follows.
C13_NoSwaySockIsFatal ==
    env_sock = Unset
    => /\ backend \in {"none", "failed"}
       /\ backend = "failed" => raised = "runtime_error: SWAY NOT SUPPORTED"
       /\ sock = <<>>
       /\ socket_path = ""
       /\ api = NoApi
       /\ ncalls = 0

C13_Witness ==
    /\ env_sock = Unset
    /\ backend = "failed"
    /\ raised = "runtime_error: SWAY NOT SUPPORTED"

\* C14: move_window(app_id, x, y) makes exactly one RUN_COMMAND round trip,
\* and its payload is the for_window clause with the criteria of app_id
\* followed by "move absolute position" and the decimal x, then the decimal y.
C14_MoveWindowCommand ==
    api.name = "move_window"
    => /\ Len(sock) <= 4
       /\ ReturnedNormally => Len(sock) = 4
       /\ Len(sock) >= 1 => sock[1].header.type = "IPC_COMMAND"
       /\ Len(sock) >= 2
            => LET p    == sock[2].payload
                   head == "for_window " \o Scope(api.appid)
                             \o " move absolute position "
               IN  /\ IsPrefix(head, p)
                   /\ TwoNumbers(SubSeq(p, Len(head) + 1, Len(p)), api.x, api.y)

C14_Witness ==
    /\ api.name = "move_window"
    /\ api.x = -7 /\ api.y = 100
    /\ ReturnedNormally
    /\ Len(sock) = 4

\* C15: initial_setup(app_id) makes two RUN_COMMAND round trips, first the
\* no_focus command and then the floating command, each with the criteria of
\* app_id, and the second request is written only after the first reply was
\* read to its end.
C15_InitialSetupSequence ==
    api.name = "initial_setup"
    => /\ Len(sock) <= 8
       /\ ReturnedNormally => Len(sock) = 8
       /\ Len(sock) >= 2
            => /\ sock[1].header.type = "IPC_COMMAND"
               /\ IsPrefix("no_focus ", sock[2].payload)
               /\ Contains(sock[2].payload, Scope(api.appid))
       /\ Len(sock) >= 5
            => /\ IsRead(3, "header")
               /\ IsRead(4, "payload")
               /\ sock[4].bytes = sock[3].header.len
               /\ IsWrite(5, "header")
               /\ sock[5].header.type = "IPC_COMMAND"
       /\ Len(sock) >= 6
            => /\ Contains(sock[6].payload, Scope(api.appid))
               /\ IsSuffix(" floating enable", sock[6].payload)

C15_Witness ==
    /\ api.name = "initial_setup"
    /\ ReturnedNormally
    /\ Len(sock) = 8
    /\ IsWrite(6, "payload")

\* C18: when the reply to a RUN_COMMAND is well formed and reports that the
\* command failed, ipc_message returns: nothing is raised, the commands the
\* member function has still to make stay due, and the SwaySocket stays live.
C18_RejectedCommandIsIgnored ==
    [][(ipc_pc = "parse" /\ buff.kind = "failure" /\ ipc_pc' # ipc_pc)
         => /\ raised' = "none"
            /\ backend' = "live"
            /\ todo' = Tail(todo)
            /\ api' = api
            /\ rejected' = rejected + 1]_vars

\* both commands of initial_setup were rejected and it returned normally
C18_Witness ==
    /\ api.name = "initial_setup"
    /\ ncalls = 2 /\ rejected = 2
    /\ ReturnedNormally
    /\ Len(sock) = 8
    /\ backend = "live"

====
